---- MODULE Spec2Model ----
(***************************************************************************)
(* Slice processing queue of SliceGallery (src/unnamed/part_000) and the   *)
(* pixel pipeline of processImage (src/app/src/utils/canvasProcessor.ts).  *)
(*                                                                         *)
(* Conventions.  Slice lists are sequences, so the source's index k is     *)
(* position k+1 here: "index 0" of the source is position 1, the source's  *)
(* null slot pointer is Null (0) and findIndex's -1 is NotFound (0).       *)
(*                                                                         *)
(* React scheduling (React 18, createRoot).  A state update made inside a  *)
(* passive effect or after an await is queued and rendered by a later task *)
(* (action Commit); the passive effects of that render run in a task of    *)
(* their own (action FlushEffects).  A click or change handler renders its *)
(* own update at once, without the queued ones, and its effects run in the *)
(* same task; queued updates of the same hook are replayed in insertion    *)
(* order by the next Commit (sliceBase is the hook's base state).  Before  *)
(* any render, effects still pending from the last commit are run.         *)
(***************************************************************************)
EXTENDS Integers, Sequences, FiniteSets, TLC

VARIABLES
    slices,              \* useState<SliceItem[]>: committed slice list
    sliceBase,           \* base state of the slices hook (before queued updates)
    qSlices,             \* queued setSlices updates, oldest first
    enableMatting,       \* useState(false)
    enableStroke,        \* useState(false)
    strokeWidth,         \* useState(6)
    filter,              \* useState<string|null>(null)
    processingIndex,     \* useState<number|null>(null): committed slot pointer
    qIndex,              \* last queued setProcessingIndex value, or NoUpdate
    selectedSliceIndex,  \* useState<number|null>(null): FineTuner target
    ops,                 \* started execute() calls whose processImage has not settled
    dirtySlices,         \* last commit changed `slices`, its effects not yet run
    dirtyIndex,          \* last commit changed `processingIndex`, effects not yet run
    generated,           \* generateSlices has delivered its list
    events,              \* number of user events and failures so far
    started,             \* history: position of the slice given to the last started operation
    sinceChange,         \* history: operations started since the last config change
    px,                  \* state of the pixel pipeline (processImage)
    geo                  \* state of the geometry computation of generateSlices

qvars == <<slices, sliceBase, qSlices, enableMatting, enableStroke, strokeWidth,
           filter, processingIndex, qIndex, selectedSliceIndex, ops,
           dirtySlices, dirtyIndex, generated, events, started, sinceChange>>
vars == <<qvars, px, geo>>

----------------------------------------------------------------------------
(* Bounds *)
MaxSlices == 2
MaxEvents == 3

(* Program constants *)
Null == 0
NotFound == 0
NoUpdate == -1
DefaultStrokeWidth == 6
StrokeWidths == {6, 7}
NoFilter == "none"
Filters == {"none", "brightness"}
EditSrcs == {1}
MaxPixels == 3
MaxTwoTonePixels == 9
MaxStrokePixels == 1
MaxStrokeWidth == 2
PixelStrokeWidths == 1..MaxStrokeWidth
MaxLines == 2
ImageSizes == {<<3, 4>>, <<10, 7>>}
CropOrigins == {0, 25}
CropSizes == {50, 75, 100}
PercentUnit == 2520
PixelUnit == 10000 * PercentUnit
GridCounts == 1..10
Percent(p) == p * PercentUnit
LinePercents == {Percent(0), Percent(25), Percent(50), Percent(100)}
PixelFilters == {"none", "grayscale", "sepia", "brightness", "vibrant", "cinematic",
                 "japanese", "warm", "other"}
TwoToneFilters == {"none", "brightness"}

Undefined == [src |-> -1, removeWhite |-> FALSE, addStroke |-> FALSE,
              strokeWidth |-> 0, filter |-> "undefined"]

Missing == [id |-> -1, originalSrc |-> -1, rect |-> -1,
            processedSrc |-> Undefined, status |-> "undefined"]

----------------------------------------------------------------------------
(* Slice list *)

\* One slice as generateSlices pushes it: status 'idle', no processedSrc.
SliceItem(count) ==
    [id |-> count, originalSrc |-> 0, rect |-> count,
     processedSrc |-> Undefined, status |-> "idle"]

NewSlices(n) == [c \in 1..n |-> SliceItem(c)]

\* slices.findIndex(s => s.status === 'pending')
FindPending(sl) ==
    IF \E j \in 1..Len(sl) : sl[j].status = "pending"
    THEN CHOOSE j \in 1..Len(sl) :
            /\ sl[j].status = "pending"
            /\ \A h \in 1..(j - 1) : sl[h].status # "pending"
    ELSE NotFound

\* prev[i] of a JavaScript array: undefined outside the array
At(prev, i) == IF i \in 1..Len(prev) THEN prev[i] ELSE Missing

\* const next = [...prev]; next[i] = item; return next
SetAt(prev, i, item) ==
    [j \in 1..(IF i > Len(prev) THEN i ELSE Len(prev)) |->
        IF j = i THEN item ELSE At(prev, j)]

\* The data URL processImage(src, config) resolves to, kept symbolic here.
ProcessSingleSlice(src, matting, stroke, width, flt) ==
    [src |-> src, removeWhite |-> matting, addStroke |-> stroke,
     strokeWidth |-> width, filter |-> flt]

\* A queued setSlices call: its updater function and what the closure captured.
Update(t, i, src, st, res, n) ==
    [t |-> t, i |-> i, src |-> src, st |-> st, res |-> res, n |-> n]

AllIdle == Update("allIdle", 0, 0, "idle", Undefined, 0)
AllPending == Update("allPending", 0, 0, "pending", Undefined, 0)
MarkProcessing(i) == Update("status", i, 0, "processing", Undefined, 0)
\* A write-back that sets the status and drops the result (a faulty variant of MarkDone)
MarkDoneWithoutResult(i, res) == Update("status", i, 0, "done", Undefined, 0)
MarkDone(i, res) == Update("done", i, 0, "done", res, 0)
\* A catch that stores the missing result (a faulty variant of MarkFailed)
MarkFailedStoring(i) == Update("done", i, 0, "idle", Undefined, 0)
MarkFailed(i) == Update("status", i, 0, "idle", Undefined, 0)
\* An edit that marks the slice 'pending' whatever the config (a faulty variant of Edit)
EditAlwaysPending(i, src, st) == Update("edit", i, src, "pending", Undefined, 0)
Edit(i, src, st) == Update("edit", i, src, st, Undefined, 0)
Generated(n) == Update("generated", 0, 0, "idle", Undefined, n)

\* The updater functions passed to setSlices, applied to the hook's state.
ApplyUpdate(prev, u) ==
    CASE u.t = "allIdle" ->
            [j \in 1..Len(prev) |->
                [prev[j] EXCEPT !.status = "idle", !.processedSrc = Undefined]]
      [] u.t = "allPending" ->
            [j \in 1..Len(prev) |-> [prev[j] EXCEPT !.status = "pending"]]
      [] u.t = "status" ->
            SetAt(prev, u.i, [At(prev, u.i) EXCEPT !.status = u.st])
      [] u.t = "done" ->
            SetAt(prev, u.i, [At(prev, u.i) EXCEPT !.status = "done",
                                                   !.processedSrc = u.res])
      [] u.t = "edit" ->
            SetAt(prev, u.i, [At(prev, u.i) EXCEPT !.originalSrc = u.src,
                                                   !.status = u.st])
      [] u.t = "generated" -> NewSlices(u.n)

\* Updates that each replace the list by one derived from the rendered list: only
\* the last one queued takes effect (a faulty variant of ApplyAll)
ApplyLastOnly(base, q) ==
    IF q = <<>> THEN base ELSE ApplyUpdate(base, q[Len(q)])

RECURSIVE ApplyAll(_, _)
ApplyAll(base, q) ==
    IF q = <<>> THEN base ELSE ApplyAll(ApplyUpdate(base, Head(q)), Tail(q))

----------------------------------------------------------------------------
(* Pixel pipeline: processImage.  A canvas is [w, h, data]; data maps the  *)
(* pixel index y * w + x (0-based, as in the source) to [r, g, b, a].      *)

Pixel(r, g, b, a) == [r |-> r, g |-> g, b |-> b, a |-> a]
Transparent == Pixel(0, 0, 0, 0)
White == Pixel(255, 255, 255, 255)
Light == Pixel(220, 220, 220, 255)
Dark == Pixel(100, 50, 20, 255)
Clear == Pixel(9, 9, 9, 0)
Faint == Pixel(200, 200, 200, 10)
Palette == {White, Light, Dark, Clear, Faint}
Grays == {Pixel(v, v, v, 255) : v \in 0..255}

Min2(a, b) == IF a < b THEN a ELSE b
Max2(a, b) == IF a > b THEN a ELSE b

\* const strokeW = (config.strokeWidth || 6) * 2; padding = addStroke ? strokeW + 4 : 0
StrokeW(cfg) == (IF cfg.strokeWidth = 0 THEN DefaultStrokeWidth ELSE cfg.strokeWidth) * 2
\* A padding computed from the width before its doubling (a faulty variant of Padding)
PaddingUndoubled(cfg) == IF cfg.addStroke THEN cfg.strokeWidth + 4 ELSE 0
Padding(cfg) == IF cfg.addStroke THEN StrokeW(cfg) + 4 ELSE 0

\* canvas sized finalW + padding * 2 by finalH + padding * 2; ctx.drawImage(img, drawX, drawY)
DrawOriginal(img, cfg) ==
    LET pad == Padding(cfg)
        cw == img.w + pad * 2
        ch == img.h + pad * 2
    IN  [w |-> cw, h |-> ch,
         data |-> [idx \in 0..(cw * ch - 1) |->
                     LET x == idx % cw
                         y == idx \div cw
                     IN  IF x >= pad /\ x < pad + img.w /\ y >= pad /\ y < pad + img.h
                         THEN img.data[(y - pad) * img.w + (x - pad)]
                         ELSE Transparent]]

\* A shouldVisit without the transparency rule (a faulty variant of shouldVisit)
shouldVisitWhiteOnly(data, idx) ==
    data[idx].r > 240 /\ data[idx].g > 240 /\ data[idx].b > 240

\* shouldVisit: transparent (a < 20), or solid and near-white
shouldVisit(data, idx) ==
    IF data[idx].a < 20 THEN TRUE
    ELSE data[idx].r > 240 /\ data[idx].g > 240 /\ data[idx].b > 240

\* if ([visited[idx] === 0 &&] shouldVisit(idx)) { queue.push(idx); visited[idx] = 1; }
Seed(st, data, idx, checkVisited) ==
    IF (~checkVisited \/ st.visited[idx] = 0) /\ shouldVisit(data, idx)
    THEN [st EXCEPT !.queue = Append(@, idx), !.visited[idx] = 1]
    ELSE st

\* Top & Bottom rows: for (let x = 0; x < width; x++)
RECURSIVE SeedRows(_, _, _, _, _)
SeedRows(st, data, width, height, x) ==
    IF x >= width THEN st
    ELSE LET seeded == Seed(Seed(st, data, x, FALSE), data, (height - 1) * width + x, FALSE)
         IN  IF Len(seeded.queue) < 0 THEN seeded
             ELSE SeedRows(seeded, data, width, height, x + 1)

\* Left & Right cols: for (let y = 0; y < height; y++)
RECURSIVE SeedCols(_, _, _, _, _)
SeedCols(st, data, width, height, y) ==
    IF y >= height THEN st
    ELSE LET seeded == Seed(Seed(st, data, y * width, TRUE), data, y * width + (width - 1), TRUE)
         IN  IF Len(seeded.queue) < 0 THEN seeded
             ELSE SeedCols(seeded, data, width, height, y + 1)

\* const neighbors = [idx - width, idx + width, cx > 0 ? idx - 1 : -1, cx < width - 1 ? idx + 1 : -1]
Neighbors(idx, width) ==
    <<idx - width, idx + width,
      IF idx % width > 0 THEN idx - 1 ELSE -1,
      IF idx % width < width - 1 THEN idx + 1 ELSE -1>>

\* A neighbour loop that clears the alpha of every neighbour in range, traversable or
\* not (a faulty variant of Visit)
RECURSIVE VisitClearing(_, _, _)
VisitClearing(st, ns, k) ==
    IF k > Len(ns) THEN st
    ELSE LET nIdx == ns[k]
             inRange == nIdx >= 0 /\ nIdx < st.size
             cleared == IF inRange THEN [st EXCEPT !.data[nIdx].a = 0] ELSE st
         IN  VisitClearing(IF /\ inRange
                              /\ st.visited[nIdx] = 0
                              /\ shouldVisit(st.data, nIdx)
                           THEN [cleared EXCEPT !.visited[nIdx] = 1, !.queue = Append(@, nIdx)]
                           ELSE cleared,
                           ns, k + 1)

\* for (const nIdx of neighbors) if (in range && unvisited && shouldVisit) { mark; push }
RECURSIVE Visit(_, _, _)
Visit(st, ns, k) ==
    IF k > Len(ns) THEN st
    ELSE LET nIdx == ns[k]
         IN  Visit(IF /\ nIdx >= 0
                      /\ nIdx < st.size
                      /\ st.visited[nIdx] = 0
                      /\ shouldVisit(st.data, nIdx)
                   THEN [st EXCEPT !.visited[nIdx] = 1, !.queue = Append(@, nIdx)]
                   ELSE st,
                   ns, k + 1)

\* An iteration that erases the whole pixel (a faulty variant of PopAndVisit)
PopAndVisitErasing(st, width) ==
    IF st.head >= Len(st.queue) THEN st
    ELSE LET idx == st.queue[st.head + 1]
             popped == [st EXCEPT !.head = @ + 1, !.data[idx] = Transparent]
         IN  Visit(popped, Neighbors(idx, width), 1)

\* One iteration of `while (head < queue.length)`: idx = queue[head++];
\* data[idx * 4 + 3] = 0; then the neighbours.  No iteration once the queue is drained.
PopAndVisit(st, width) ==
    IF st.head >= Len(st.queue) THEN st
    ELSE LET idx == st.queue[st.head + 1]
             popped == [st EXCEPT !.head = @ + 1, !.data[idx].a = 0]
         IN  Visit(popped, Neighbors(idx, width), 1)

\* n iterations of the loop (split in halves to keep the evaluation shallow)
RECURSIVE Iterate(_, _, _)
Iterate(st, width, n) ==
    IF n = 0 THEN st
    ELSE IF n = 1 THEN PopAndVisit(st, width)
    ELSE LET half == Iterate(st, width, n \div 2)
         IN  IF half.head > Len(half.queue) THEN half
             ELSE Iterate(half, width, n - (n \div 2))

\* The whole loop: no pixel is pushed by a neighbour twice and the seeding pushes a
\* border pixel at most twice, so 2 * width * height iterations drain the queue.
ProcessQueue(st, width) == Iterate(st, width, 2 * st.size)

\* The flood fill of one `if (config.removeWhite)` block, with its queue
FloodFill(canvas) ==
    LET size == canvas.w * canvas.h
        st0 == [queue |-> <<>>, visited |-> [idx \in 0..(size - 1) |-> 0]]
        st1 == SeedRows(st0, canvas.data, canvas.w, canvas.h, 0)
        st2 == SeedCols(st1, canvas.data, canvas.w, canvas.h, 0)
    IN  ProcessQueue([queue |-> st2.queue, visited |-> st2.visited, head |-> 0,
                      data |-> canvas.data, size |-> size], canvas.w)

RemoveWhite(canvas) == [canvas EXCEPT !.data = FloodFill(canvas).data]

\* a number stored into a Uint8ClampedArray: num / den rounded half to even, clamped
ToUint8Clamped(num, den) ==
    LET q == num \div den
        r == num % den
        rounded == IF 2 * r > den THEN q + 1
                   ELSE IF 2 * r < den THEN q
                   ELSE IF q % 2 = 0 THEN q ELSE q + 1
    IN  Max2(0, Min2(255, rounded))

\* The mean of the channels with the weight 0.33 each, in thousandths (a faulty
\* variant of Luminance)
LuminanceThirds(p) == 330 * p.r + 330 * p.g + 330 * p.b

\* r * 0.299 + g * 0.587 + b * 0.114, in thousandths
Luminance(p) == 299 * p.r + 587 * p.g + 114 * p.b

\* 'cinematic' step 1: gray + (c - gray) * 0.6 on every channel c
Desaturate(p) ==
    [p EXCEPT !.r = ToUint8Clamped(4 * Luminance(p) + 6000 * p.r, 10000),
              !.g = ToUint8Clamped(4 * Luminance(p) + 6000 * p.g, 10000),
              !.b = ToUint8Clamped(4 * Luminance(p) + 6000 * p.b, 10000)]

\* 'cinematic' step 2: teal shadows (luminance < 128), orange highlights
Grade(p) ==
    IF Luminance(p) < 128000
    THEN [p EXCEPT !.r = Max2(0, p.r - 10), !.g = Min2(255, p.g + 5),
                   !.b = Min2(255, p.b + 15)]
    ELSE [p EXCEPT !.r = Min2(255, p.r + 15), !.g = Min2(255, p.g + 5),
                   !.b = Max2(0, p.b - 10)]

\* Math.sqrt of n (0..10^6), rounded down
ISqrt(n) == CHOOSE r \in 0..1000 : r * r <= n /\ (r + 1) * (r + 1) > n

\* 'cinematic' step 3: c *= 1 - (dist / maxDist) * 0.5, with dist / maxDist taken in
\* thousandths (rounded down)
Vignette(p, x, y, width, height) ==
    LET distSq == (2 * x - width) * (2 * x - width) + (2 * y - height) * (2 * y - height)
        maxSq == width * width + height * height
        ratio == ISqrt((distSq * 1000000) \div maxSq)
    IN  [p EXCEPT !.r = ToUint8Clamped(p.r * (2000 - ratio), 2000),
                  !.g = ToUint8Clamped(p.g * (2000 - ratio), 2000),
                  !.b = ToUint8Clamped(p.b * (2000 - ratio), 2000)]

\* A brightness filter without `if (data[i + 3] === 0) continue` (a faulty variant of
\* FilterPixel)
FilterPixelNoSkip(p, flt, x, y, width, height) ==
    IF flt = "brightness"
    THEN [p EXCEPT !.r = Min2(255, p.r + 30), !.g = Min2(255, p.g + 30),
                   !.b = Min2(255, p.b + 30)]
    ELSE p

\* applyFilter's switch, for the pixel at (x, y); pixels with alpha 0 are skipped and
\* a name without a case changes nothing
FilterPixel(p, flt, x, y, width, height) ==
    IF p.a = 0 THEN p
    ELSE CASE flt = "grayscale" ->
                LET gray == ToUint8Clamped(Luminance(p), 1000)
                IN  [p EXCEPT !.r = gray, !.g = gray, !.b = gray]
           [] flt = "sepia" ->
                [p EXCEPT !.r = ToUint8Clamped(393 * p.r + 769 * p.g + 189 * p.b, 1000),
                          !.g = ToUint8Clamped(349 * p.r + 686 * p.g + 168 * p.b, 1000),
                          !.b = ToUint8Clamped(272 * p.r + 534 * p.g + 131 * p.b, 1000)]
           [] flt = "brightness" ->
                [p EXCEPT !.r = Min2(255, p.r + 30), !.g = Min2(255, p.g + 30),
                          !.b = Min2(255, p.b + 30)]
           [] flt = "vibrant" ->
                LET sum == p.r + p.g + p.b
                    delta == Max2(p.r, Max2(p.g, p.b)) - Min2(p.r, Min2(p.g, p.b))
                IN  IF delta > 0
                    THEN [p EXCEPT !.r = ToUint8Clamped(42 * p.r - 4 * sum, 30),
                                   !.g = ToUint8Clamped(42 * p.g - 4 * sum, 30),
                                   !.b = ToUint8Clamped(42 * p.b - 4 * sum, 30)]
                    ELSE p
           [] flt = "cinematic" ->
                Vignette(Grade(Desaturate(p)), x, y, width, height)
           [] flt = "japanese" ->
                LET r == Min2(255, p.r + 40)
                    g == Min2(255, p.g + 40)
                    b == Min2(255, p.b + 40)
                    sum == r + g + b
                IN  [p EXCEPT !.r = ToUint8Clamped(Max2(0, 7 * r + sum - 100), 10),
                              !.g = ToUint8Clamped(7 * g + sum, 10),
                              !.b = ToUint8Clamped(Min2(2550, 7 * b + sum + 150), 10)]
           [] flt = "warm" ->
                [p EXCEPT !.r = Min2(255, p.r + 25), !.g = Min2(255, p.g + 10),
                          !.b = Max2(0, p.b - 15)]
           [] OTHER -> p

applyFilter(canvas, flt) ==
    [canvas EXCEPT !.data = [idx \in DOMAIN canvas.data |->
        FilterPixel(canvas.data[idx], flt, idx % canvas.w, idx \div canvas.w,
                    canvas.w, canvas.h)]]

\* 4. Add Smooth Stroke: the silhouette's stacked shadow under the canvas content.
\* The twelve blurred shadow passes are taken as saturated: a pixel within strokeW
\* of the silhouette gets the opaque stroke colour where the content is transparent.
AddStroke(canvas, strokeW) ==
    LET Near(idx) ==
            \E o \in DOMAIN canvas.data :
                /\ canvas.data[o].a > 0
                /\ LET dx == (idx % canvas.w) - (o % canvas.w)
                       dy == (idx \div canvas.w) - (o \div canvas.w)
                   IN  dx * dx + dy * dy <= strokeW * strokeW
    IN  [canvas EXCEPT !.data = [idx \in DOMAIN canvas.data |->
            IF canvas.data[idx].a = 255 THEN canvas.data[idx]
            ELSE IF Near(idx) THEN White
            ELSE canvas.data[idx]]]

\* The pipeline position of a processImage call; Idle while the queue is modelled
Idle == [pc |-> "idle"]

\* The images of at most maxPixels pixels with their pixels in palette
Images(maxPixels, palette) ==
    UNION { [w : {w}, h : {h}, data : [0..(w * h - 1) -> palette]] :
            <<w, h>> \in {wh \in (1..maxPixels) \X (1..maxPixels) : wh[1] * wh[2] <= maxPixels} }

Configs(stroke, widths, filters) ==
    [removeWhite : BOOLEAN, addStroke : {stroke}, strokeWidth : widths, filter : filters]

\* const img = await loadImage(src): the call's image and config.  Small images of
\* every palette colour under every filter, with and without the stroke; larger
\* images of white and dark pixels (borders, enclosed regions) under two filters;
\* one opaque pixel of every gray level under 'grayscale'.
LoadImage ==
    \/ \E img \in Images(MaxPixels, Palette), cfg \in Configs(FALSE, {1}, PixelFilters) :
          px = [pc |-> "loaded", img |-> img, cfg |-> cfg, canvas |-> img]
    \/ \E img \in Images(MaxStrokePixels, Palette),
           cfg \in Configs(TRUE, PixelStrokeWidths, PixelFilters) :
          px = [pc |-> "loaded", img |-> img, cfg |-> cfg, canvas |-> img]
    \/ \E img \in Images(MaxTwoTonePixels, {White, Dark}),
           cfg \in Configs(FALSE, {1}, TwoToneFilters) :
          px = [pc |-> "loaded", img |-> img, cfg |-> cfg, canvas |-> img]
    \/ \E img \in Images(1, Grays), cfg \in Configs(FALSE, {1}, {"grayscale"}) :
          px = [pc |-> "loaded", img |-> img, cfg |-> cfg, canvas |-> img]

\* 1. Draw Original
Draw ==
    /\ px.pc = "loaded"
    /\ px' = [px EXCEPT !.pc = "drawn", !.canvas = DrawOriginal(px.img, px.cfg)]
    /\ UNCHANGED <<qvars, geo>>

\* 2. Remove White Background (Flood Fill) - BEFORE filter
RemoveWhiteBackground ==
    /\ px.pc = "drawn"
    /\ px' = [px EXCEPT !.pc = "matted",
                        !.canvas = IF px.cfg.removeWhite THEN RemoveWhite(@) ELSE @]
    /\ UNCHANGED <<qvars, geo>>

\* 3. Apply Filter (AFTER matting): if (config.filter) applyFilter(...)
Filter ==
    /\ px.pc = "matted"
    /\ px' = [px EXCEPT !.pc = "filtered",
                        !.canvas = IF px.cfg.filter # NoFilter
                                   THEN applyFilter(@, px.cfg.filter) ELSE @]
    /\ UNCHANGED <<qvars, geo>>

\* the second `if (config.removeWhite)` block, after the filter (lines 271-343)
SecondFloodFill ==
    /\ px.pc = "filtered"
    /\ px' = [px EXCEPT !.pc = "refilled",
                        !.canvas = IF px.cfg.removeWhite THEN RemoveWhite(@) ELSE @]
    /\ UNCHANGED <<qvars, geo>>

\* 4. Add Smooth Stroke, and the data URL returned
Stroke ==
    /\ px.pc = "refilled"
    /\ px' = [px EXCEPT !.pc = "done",
                        !.canvas = IF px.cfg.addStroke
                                   THEN AddStroke(@, StrokeW(px.cfg)) ELSE @]
    /\ UNCHANGED <<qvars, geo>>

NextPixel == Draw \/ RemoveWhiteBackground \/ Filter \/ SecondFloodFill \/ Stroke

----------------------------------------------------------------------------
(* The store's grid and the geometry of generateSlices.  A grid line is a          *)
(* percentage in units of 1 / PercentUnit (a multiple of every cols and rows), the  *)
(* crop is in whole percent, and a position or length in pixels is in units of      *)
(* 1 / PixelUnit pixel, so that (p / 100) * ((w / 100) * W) is the integer p * w * W. *)

\* [...].sort((a, b) => a - b): insertion into the sorted rest
RECURSIVE Insert(_, _)
Insert(a, sorted) ==
    IF sorted = <<>> THEN <<a>>
    ELSE IF a <= Head(sorted) THEN <<a>> \o sorted
    ELSE <<Head(sorted)>> \o Insert(a, Tail(sorted))

\* The positions left in the order given (a faulty variant of Sort)
Unsorted(s) == s

RECURSIVE Sort(_)
Sort(s) == IF s = <<>> THEN s ELSE Insert(Head(s), Sort(Tail(s)))

\* [0, ...lines.map(p => (p / 100) * size), size].sort(...); size in 1/100 pixel
CutPositions(lines, size) ==
    Sort(<<0>> \o [i \in 1..Len(lines) |-> lines[i] * size] \o <<Percent(100) * size>>)

\* Math.round of a length: the nearest integer, halves upwards
Round(len) == (len + PixelUnit \div 2) \div PixelUnit

\* A cell that is always kept (a faulty variant of Kept)
KeptAlways(rw, rh) == TRUE

\* if (rw <= 0 || rh <= 0) continue
Kept(rw, rh) == ~(rw <= 0 \/ rh <= 0)

\* The cell of row r and column c (0-based), with the size of its canvas
Cell(xPos, yPos, r, c, cx, cy) ==
    LET rx == xPos[c + 1]
        ry == yPos[r + 1]
        rw == xPos[c + 2] - rx
        rh == yPos[r + 2] - ry
    IN  [x |-> cx + rx, y |-> cy + ry, w |-> rw, h |-> rh,
         canvasW |-> Round(rw), canvasH |-> Round(rh)]

\* The rects of newSlices, in the order the two loops push them
GenerateRects(size, crop, lines) ==
    LET cx == Percent(crop.x) * size[1] * 100
        cy == Percent(crop.y) * size[2] * 100
        xPos == CutPositions(lines.v, crop.w * size[1])
        yPos == CutPositions(lines.h, crop.h * size[2])
        cols == Len(xPos) - 1
        rows == Len(yPos) - 1
        cells == [k \in 1..(rows * cols) |->
                    Cell(xPos, yPos, (k - 1) \div cols, (k - 1) % cols, cx, cy)]
    IN  SelectSeq(cells, LAMBDA cell : Kept(cell.w, cell.h))

Lines(maxLines) == UNION {[1..n -> LinePercents] : n \in 0..maxLines}

Crops ==
    {crop \in [x : CropOrigins, y : {0}, w : CropSizes, h : {50, 100}] :
        crop.x + crop.w <= 100 /\ crop.y + crop.h <= 100}

\* The store when the editor opens on a chosen image (setFile), with the crop set:
\* the grid and the lines are the store's initial ones
OpenEditor ==
    \E size \in ImageSizes, crop \in Crops :
        geo = [pc |-> "editor", size |-> size, file |-> 1, imageUrl |-> 1,
               step |-> "editor",
               grid |-> [rows |-> 4, cols |-> 4, inset |-> 0],
               crop |-> crop, lines |-> [v |-> <<>>, h |-> <<>>], rects |-> <<>>]

\* The store in the editor after the lines of the grid were dragged to their places
LoadGeometry ==
    \E size \in ImageSizes, crop \in Crops, v \in Lines(MaxLines), h \in Lines(MaxLines) :
        geo = [pc |-> "loaded", size |-> size, file |-> 1, imageUrl |-> 1,
               step |-> "editor",
               grid |-> [rows |-> Len(h) + 1, cols |-> Len(v) + 1, inset |-> 0],
               crop |-> crop, lines |-> [v |-> v, h |-> h], rects |-> <<>>]

\* Lines at (i / n) * 100, the first one at 0 (a faulty variant of EvenLines)
EvenLinesFromZero(n) == [i \in 1..(n - 1) |-> ((i - 1) * Percent(100)) \div n]

\* Array.from({ length: n - 1 }, (_, i) => ((i + 1) / n) * 100)
EvenLines(n) == [i \in 1..(n - 1) |-> (i * Percent(100)) \div n]

\* the rows and cols range inputs of the editor, used before any line is dragged (the
\* new grid and lines do not depend on the old ones)
setGridConfig(rows, cols) ==
    /\ geo.pc = "editor"
    /\ geo' = [geo EXCEPT !.grid = [@ EXCEPT !.rows = rows, !.cols = cols],
                          !.lines = [v |-> EvenLines(cols), h |-> EvenLines(rows)]]
    /\ UNCHANGED <<qvars, px>>

\* The two loops of generateSlices
ResolveGeometry ==
    /\ geo.pc \in {"editor", "loaded"}
    /\ geo' = [geo EXCEPT !.pc = "generated",
                          !.rects = GenerateRects(geo.size, geo.crop, geo.lines)]
    /\ UNCHANGED <<qvars, px>>

----------------------------------------------------------------------------
(* Effects.  q is what an effect can write: the queued updates, the      *)
(* started operations and the history of the last start.                 *)

Pending ==
    [qSlices |-> qSlices, qIndex |-> qIndex, ops |-> ops, started |-> started,
     sinceChange |-> sinceChange]

\* return () => { isMounted = false; }  (cleanup of the processor effect)
Cleanup(q) ==
    [q EXCEPT !.ops = [j \in 1..Len(q.ops) |-> [q.ops[j] EXCEPT !.isMounted = FALSE]]]

\* A Queue Manager that frees the slot without resetting the statuses (a faulty
\* variant of QueueManager)
QueueManagerKeepingStatus(q, em, es) == [q EXCEPT !.qIndex = Null, !.sinceChange = 0]

\* 2. Queue Manager: runs when enableMatting, enableStroke, strokeWidth or filter changed
QueueManager(q, em, es) ==
    IF ~em /\ ~es
    THEN [q EXCEPT !.qSlices = Append(@, AllIdle), !.qIndex = Null, !.sinceChange = 0]
    ELSE [q EXCEPT !.qSlices = Append(@, AllPending), !.qIndex = Null, !.sinceChange = 0]

\* A finder without `if (processingIndex !== null) return` (a faulty variant of Finder)
FinderIgnoringSlot(q, sl, pi, em, es) ==
    IF ~em /\ ~es THEN q
    ELSE LET nextIndex == FindPending(sl)
         IN  IF nextIndex # NotFound THEN [q EXCEPT !.qIndex = nextIndex] ELSE q

\* 3. Queue Loop: Finder, with the slices and processingIndex of its render
Finder(q, sl, pi, em, es) ==
    IF pi # Null THEN q
    ELSE IF ~em /\ ~es THEN q
    ELSE LET nextIndex == FindPending(sl)
         IN  IF nextIndex # NotFound THEN [q EXCEPT !.qIndex = nextIndex] ELSE q

\* execute(), up to its await: mark the slice, read it from the render's slices,
\* start processImage with the render's config
Execute(q, sl, pi, em, es, width, flt) ==
    LET marked == [q EXCEPT !.qSlices = Append(@, MarkProcessing(pi))]
    IN  IF pi \notin 1..Len(sl)
        THEN [marked EXCEPT !.qIndex = Null]
        ELSE [marked EXCEPT
                !.ops = Append(@, [index |-> pi, src |-> sl[pi].originalSrc,
                                   removeWhite |-> em, addStroke |-> es,
                                   strokeWidth |-> width, filter |-> flt,
                                   isMounted |-> TRUE]),
                !.started = pi,
                !.sinceChange = @ + 1]

\* 4. Queue Loop: Processor, runs when processingIndex changed
Processor(q, sl, pi, em, es, width, flt) ==
    IF pi = Null THEN q ELSE Execute(q, sl, pi, em, es, width, flt)

\* The passive effects of one commit, cleanups first, then in source order.
RunEffects(q, sl, pi, em, es, width, flt, cfgChanged, finderChanged, indexChanged) ==
    LET q0 == IF indexChanged THEN Cleanup(q) ELSE q
        q1 == IF cfgChanged THEN QueueManager(q0, em, es) ELSE q0
        q2 == IF finderChanged THEN Finder(q1, sl, pi, em, es) ELSE q1
    IN  IF indexChanged THEN Processor(q2, sl, pi, em, es, width, flt) ELSE q2

\* Effects still pending from the last commit run before the next render.
Flushed ==
    IF dirtySlices \/ dirtyIndex
    THEN RunEffects(Pending, slices, processingIndex, enableMatting, enableStroke,
                    strokeWidth, filter, FALSE, TRUE, dirtyIndex)
    ELSE Pending

Write(q) ==
    /\ qSlices' = q.qSlices
    /\ qIndex' = q.qIndex
    /\ ops' = q.ops
    /\ started' = q.started
    /\ sinceChange' = q.sinceChange

----------------------------------------------------------------------------
(* Initial state: SliceGallery mounted, mount effects run (config disabled) *)

InitQueue ==
    /\ slices = <<>>
    /\ sliceBase = <<>>
    /\ qSlices = <<AllIdle>>
    /\ enableMatting = FALSE
    /\ enableStroke = FALSE
    /\ strokeWidth = DefaultStrokeWidth
    /\ filter = NoFilter
    /\ processingIndex = Null
    /\ qIndex = Null
    /\ selectedSliceIndex = Null
    /\ ops = <<>>
    /\ dirtySlices = FALSE
    /\ dirtyIndex = FALSE
    /\ generated = FALSE
    /\ events = 0
    /\ started = Null
    /\ sinceChange = 0

----------------------------------------------------------------------------
(* Actions *)

\* 1. Initial Generation: the timeout fired and the image loaded
GenerateSlices(n) ==
    /\ ~generated
    /\ generated' = TRUE
    /\ qSlices' = Append(qSlices, Generated(n))
    /\ qIndex' = Null
    /\ UNCHANGED <<slices, sliceBase, enableMatting, enableStroke, strokeWidth, filter,
                   processingIndex, selectedSliceIndex, ops, dirtySlices, dirtyIndex,
                   events, started, sinceChange, px, geo>>

\* A render of the queued updates (a task of React's scheduler)
Commit ==
    /\ ~dirtySlices /\ ~dirtyIndex
    /\ qSlices # <<>> \/ qIndex # NoUpdate
    /\ slices' = ApplyAll(sliceBase, qSlices)
    /\ sliceBase' = slices'
    /\ qSlices' = <<>>
    /\ processingIndex' = IF qIndex = NoUpdate THEN processingIndex ELSE qIndex
    /\ qIndex' = NoUpdate
    /\ dirtySlices' = (qSlices # <<>>)
    /\ dirtyIndex' = (processingIndex' # processingIndex)
    /\ UNCHANGED <<enableMatting, enableStroke, strokeWidth, filter, selectedSliceIndex,
                   ops, generated, events, started, sinceChange, px, geo>>

\* The passive effects of the last commit
FlushEffects ==
    /\ dirtySlices \/ dirtyIndex
    /\ Write(Flushed)
    /\ dirtySlices' = FALSE
    /\ dirtyIndex' = FALSE
    /\ UNCHANGED <<slices, sliceBase, enableMatting, enableStroke, strokeWidth, filter,
                   processingIndex, selectedSliceIndex, generated, events, px, geo>>

\* A config control was used (the FineTuner overlay, when open, covers the controls):
\* the new config is rendered at once and its effects run
SetConfig(em, es, width, flt) ==
    /\ selectedSliceIndex = Null
    /\ events < MaxEvents
    /\ events' = events + 1
    /\ enableMatting' = em
    /\ enableStroke' = es
    /\ strokeWidth' = width
    /\ filter' = flt
    /\ Write(RunEffects(Flushed, slices, processingIndex, em, es, width, flt, TRUE,
                        em # enableMatting \/ es # enableStroke \/ width # strokeWidth,
                        FALSE))
    /\ dirtySlices' = FALSE
    /\ dirtyIndex' = FALSE
    /\ UNCHANGED <<slices, sliceBase, processingIndex, selectedSliceIndex, generated, px, geo>>

\* onClick={() => setEnableMatting(!enableMatting)}
ToggleMatting == SetConfig(~enableMatting, enableStroke, strokeWidth, filter)

\* onClick={() => setEnableStroke(!enableStroke)}
ToggleStroke == SetConfig(enableMatting, ~enableStroke, strokeWidth, filter)

\* the range input, rendered only while enableStroke
SetStrokeWidth(width) ==
    /\ enableStroke
    /\ width # strokeWidth
    /\ SetConfig(enableMatting, enableStroke, width, filter)

\* the filter select
SetFilter(flt) ==
    /\ flt # filter
    /\ SetConfig(enableMatting, enableStroke, strokeWidth, flt)

\* the edit button of slice i: setSelectedSliceIndex(i) opens the FineTuner
SelectSlice(i) ==
    /\ selectedSliceIndex = Null
    /\ events < MaxEvents
    /\ i \in 1..Len(slices)
    /\ selectedSliceIndex' = i
    /\ Write(Flushed)
    /\ dirtySlices' = FALSE
    /\ dirtyIndex' = FALSE
    /\ UNCHANGED <<slices, sliceBase, enableMatting, enableStroke, strokeWidth, filter,
                   processingIndex, generated, events, px, geo>>

\* FineTuner onClose
CloseTuner ==
    /\ selectedSliceIndex # Null
    /\ selectedSliceIndex' = Null
    /\ Write(Flushed)
    /\ dirtySlices' = FALSE
    /\ dirtyIndex' = FALSE
    /\ UNCHANGED <<slices, sliceBase, enableMatting, enableStroke, strokeWidth, filter,
                   processingIndex, generated, events, px, geo>>

\* FineTuner onSave
handleUpdateSlice(newSrc) ==
    /\ selectedSliceIndex # Null
    /\ events < MaxEvents
    /\ events' = events + 1
    /\ LET u == Edit(selectedSliceIndex, newSrc,
                     IF enableMatting \/ enableStroke THEN "pending" ELSE "idle")
           q == Flushed
       IN  /\ slices' = ApplyUpdate(slices, u)
           /\ sliceBase' = IF q.qSlices = <<>> THEN slices' ELSE sliceBase
           /\ Write(RunEffects(
                  [q EXCEPT !.qSlices = IF @ = <<>> THEN @ ELSE Append(@, u)],
                  slices', processingIndex, enableMatting, enableStroke,
                  strokeWidth, filter, FALSE, TRUE, FALSE))
    /\ selectedSliceIndex' = Null
    /\ dirtySlices' = FALSE
    /\ dirtyIndex' = FALSE
    /\ UNCHANGED <<enableMatting, enableStroke, strokeWidth, filter, processingIndex,
                   generated, px, geo>>

RemoveAt(s, j) == [h \in 1..(Len(s) - 1) |-> IF h < j THEN s[h] ELSE s[h + 1]]

\* processImage resolved: execute() continues after its await
Resolve(j) ==
    /\ j \in 1..Len(ops)
    /\ LET op == ops[j]
           result == ProcessSingleSlice(op.src, op.removeWhite, op.addStroke,
                                        op.strokeWidth, op.filter)
       IN  IF op.isMounted
           THEN /\ qSlices' = Append(qSlices, MarkDone(op.index, result))
                /\ qIndex' = Null
           ELSE UNCHANGED <<qSlices, qIndex>>
    /\ ops' = RemoveAt(ops, j)
    /\ UNCHANGED <<slices, sliceBase, enableMatting, enableStroke, strokeWidth, filter,
                   processingIndex, selectedSliceIndex, dirtySlices, dirtyIndex,
                   generated, events, started, sinceChange, px, geo>>

\* processImage rejected: the catch and finally blocks of execute()
Reject(j) ==
    /\ j \in 1..Len(ops)
    /\ events < MaxEvents
    /\ events' = events + 1
    /\ IF ops[j].isMounted
       THEN /\ qSlices' = Append(qSlices, MarkFailed(ops[j].index))
            /\ qIndex' = Null
       ELSE UNCHANGED <<qSlices, qIndex>>
    /\ ops' = RemoveAt(ops, j)
    /\ UNCHANGED <<slices, sliceBase, enableMatting, enableStroke, strokeWidth, filter,
                   processingIndex, selectedSliceIndex, dirtySlices, dirtyIndex,
                   generated, started, sinceChange, px, geo>>

Init == InitQueue /\ px = Idle /\ geo = Idle

\* Every step but a rejection of processImage
NextLive ==
    \/ \E n \in 1..MaxSlices : GenerateSlices(n)
    \/ Commit
    \/ FlushEffects
    \/ ToggleMatting
    \/ ToggleStroke
    \/ \E width \in StrokeWidths : SetStrokeWidth(width)
    \/ \E flt \in Filters : SetFilter(flt)
    \/ \E i \in 1..MaxSlices : SelectSlice(i)
    \/ CloseTuner
    \/ \E newSrc \in EditSrcs : handleUpdateSlice(newSrc)
    \/ \E j \in 1..(MaxEvents + 2) : Resolve(j)

Next == NextLive \/ \E j \in 1..(MaxEvents + 2) : Reject(j)

Spec == Init /\ [][Next]_vars

\* Runs without failures under fair scheduling: React's scheduler runs every queued
\* render and effect task, every processImage call settles, the generation timeout fires.
SpecLive ==
    /\ Init
    /\ [][NextLive]_vars
    /\ WF_vars(Commit)
    /\ WF_vars(FlushEffects)
    /\ WF_vars(\E j \in 1..(MaxEvents + 2) : Resolve(j))
    /\ WF_vars(\E n \in 1..MaxSlices : GenerateSlices(n))

\* One processImage call on every bounded image and config
InitPixel == InitQueue /\ LoadImage /\ geo = Idle

SpecPixel == InitPixel /\ [][NextPixel]_vars

\* One geometry computation on every bounded image size, crop and grid line set
InitGeometry == InitQueue /\ px = Idle /\ (OpenEditor \/ LoadGeometry)

NextGeometry ==
    \/ \E rows \in GridCounts, cols \in GridCounts : setGridConfig(rows, cols)
    \/ ResolveGeometry

SpecGeometry == InitGeometry /\ [][NextGeometry]_vars

----------------------------------------------------------------------------
(* Properties of the slice queue *)

Enabled == enableMatting \/ enableStroke

\* Nothing queued and no effect pending: the committed state is the hooks' state
Settled == qSlices = <<>> /\ qIndex = NoUpdate /\ ~dirtySlices /\ ~dirtyIndex

Processing == {j \in 1..Len(slices) : slices[j].status = "processing"}

\* C1: in every reachable state, after any config changes, edits, completions and
\* failures, at most one slice has status 'processing'.
AtMostOneProcessing == Cardinality(Processing) <= 1

\* C1 reached: a config change arrived during processing, so that two operations are
\* running, and a slice is 'processing'.
TwoOperationsOneProcessing == Len(ops) >= 2 /\ Cardinality(Processing) = 1

\* C2: at most one started processImage call that has not yet resolved or rejected
\* exists at any time, config changes during processing included.
SingleFlight == Len(ops) <= 1

\* C3: while slice k is 'processing', holds the slot and its operation is still
\* running, a step that keeps the config enabled, is no edit of k and does not end the
\* operation leaves k 'processing' and the slot on k.
ConfigChangeWaitsForOperation ==
    [][\A j \in 1..Len(ops) :
          LET k == ops[j].index
          IN  (/\ ops[j].isMounted
               /\ processingIndex = k
               /\ k \in 1..Len(slices)
               /\ slices[k].status = "processing"
               /\ Len(ops') >= Len(ops)
               /\ Enabled /\ Enabled'
               /\ k \in 1..Len(slices')
               /\ slices'[k].originalSrc = slices[k].originalSrc)
              => (slices'[k].status = "processing" /\ processingIndex' = k)]_vars

\* C4: whenever the slot pointer is set to a slice, the slot was free and that slice
\* is the lowest-index slice with status 'pending' at that moment.
SlotTakesLowestPending ==
    [][(processingIndex' # processingIndex /\ processingIndex' # Null) =>
          /\ processingIndex = Null
          /\ processingIndex' \in 1..Len(slices')
          /\ slices'[processingIndex'].status = "pending"
          /\ \A h \in 1..(processingIndex' - 1) : slices'[h].status # "pending"]_vars

\* The queued updates hold a config change's reset to 'pending' that no later
\* regeneration or disabling overrides
PendingResetQueued ==
    \E j \in 1..Len(qSlices) :
        /\ qSlices[j] = AllPending
        /\ \A h \in (j + 1)..Len(qSlices) : qSlices[h].t \notin {"generated", "allIdle"}

\* C5: when the render of a config change that leaves matting or stroke enabled
\* commits, every slice has status 'pending'.
ConfigChangeSetsAllPending ==
    [][(Enabled /\ PendingResetQueued /\ qSlices' = <<>>) =>
          \A j \in 1..Len(slices') : slices'[j].status = "pending"]_vars

\* C6: once matting and stroke are both disabled and the renders have settled, every
\* slice is 'idle' without a processed buffer and the slot is free.
DisabledMeansIdle ==
    (~Enabled /\ Settled) =>
        /\ processingIndex = Null
        /\ \A j \in 1..Len(slices) :
               slices[j].status = "idle" /\ slices[j].processedSrc = Undefined

\* C7: a slice that is 'idle' (as after a failure) is not taken into processing: it
\* has to be made 'pending' by a config change or an edit first.
IdleSliceNotProcessed ==
    [][\A j \in 1..Len(slices) :
          (j <= Len(slices') /\ slices[j].status = "idle")
              => slices'[j].status # "processing"]_vars

AllDone ==
    /\ Len(slices) > 0
    /\ processingIndex = Null
    /\ \A j \in 1..Len(slices) : slices[j].status = "done"

\* C8: with matting or stroke enabled, the list generated (before or after the
\* enabling) and no further config change, edit or failure, the queue eventually has
\* every slice 'done' and the slot free.
EventuallyAllDone == (Enabled /\ generated /\ events = MaxEvents) ~> AllDone

\* C9: an edit of slice i sets it 'pending' when matting or stroke is enabled and
\* 'idle' otherwise, replaces its original, and leaves its id, rect and processed
\* buffer and every other slice unchanged.
EditFrame ==
    [][(selectedSliceIndex # Null /\ selectedSliceIndex' = Null /\ events' = events + 1) =>
          /\ Len(slices') = Len(slices)
          /\ \A j \in 1..Len(slices) :
                IF j = selectedSliceIndex
                THEN /\ slices'[j].status = (IF Enabled THEN "pending" ELSE "idle")
                     /\ slices'[j].originalSrc \in EditSrcs
                     /\ slices'[j].id = slices[j].id
                     /\ slices'[j].rect = slices[j].rect
                     /\ slices'[j].processedSrc = slices[j].processedSrc
                ELSE slices'[j] = slices[j]]_vars

\* C9 reached: a slice that had been processed was edited while the config was
\* enabled and another slice was untouched: it is 'pending' with its new original and
\* its old processed buffer.
EditedProcessedSlice ==
    /\ Enabled
    /\ selectedSliceIndex = Null
    /\ \E i \in 1..Len(slices) :
          /\ slices[i].originalSrc \in EditSrcs
          /\ slices[i].status = "pending"
          /\ slices[i].processedSrc # Undefined
          /\ \E j \in 1..Len(slices) : j # i /\ slices[j].originalSrc \notin EditSrcs

Done == {j \in 1..Len(slices) : slices[j].status = "done"}

\* C17: a slice that is 'done' has a processed buffer computed from its current
\* original; a result computed from an original that an edit replaced is not stored.
DoneFromCurrentOriginal ==
    \A j \in Done :
        /\ slices[j].processedSrc # Undefined
        /\ slices[j].processedSrc.src = slices[j].originalSrc

\* The config a processed buffer was computed with is the active one
FromActiveConfig(result) ==
    /\ result.removeWhite = enableMatting
    /\ result.addStroke = enableStroke
    /\ result.strokeWidth = strokeWidth
    /\ result.filter = filter

\* C18: once the renders have settled, every 'done' slice's processed buffer was
\* computed with the active config: results of operations started under an older
\* config are ignored.
DoneFromActiveConfig ==
    Settled =>
        \A j \in Done :
            /\ slices[j].processedSrc # Undefined
            /\ FromActiveConfig(slices[j].processedSrc)

\* The catch block's write for slice k is the last queued update, after updates
\* that write no processed buffer
FailureQueued(k) ==
    /\ qSlices # <<>>
    /\ qSlices[Len(qSlices)] = MarkFailed(k)
    /\ \A h \in 1..(Len(qSlices) - 1) : qSlices[h].t \in {"status", "edit", "allPending"}

\* C19: a failed transform leaves the slice's processed buffer as it was: the
\* rejection itself changes no slice, and the render of the catch block's write
\* keeps the buffer, the previously good one or none.
FailureKeepsBuffer ==
    [][/\ Len(ops') < Len(ops) => slices' = slices
       /\ \A k \in 1..Len(slices) :
             (FailureQueued(k) /\ qSlices' = <<>>) =>
                 slices'[k].processedSrc = slices[k].processedSrc]_vars

\* C19 reached: the catch block's write is queued for a slice that has a processed
\* buffer from an earlier run.
FailureQueuedForProcessedSlice ==
    \E k \in 1..Len(slices) :
        FailureQueued(k) /\ slices[k].processedSrc # Undefined

\* C20: when the catch block's write for slice k is rendered, k is 'idle' and has no
\* processed buffer, also when it had one from an earlier config epoch.
FailureClearsBuffer ==
    [][\A k \in 1..Len(slices) :
          (FailureQueued(k) /\ qSlices' = <<>>) =>
              /\ slices'[k].status = "idle"
              /\ slices'[k].processedSrc = Undefined]_vars

\* No slice of the list carries an edited original
NeverEdited == \A j \in 1..Len(slices) : slices[j].originalSrc \notin EditSrcs

\* C21: within one config epoch and without an edit, the slices enter processing in
\* strictly increasing index order, so that none is processed twice: an operation
\* started after another of the same epoch is for a higher index.
EpochProcessesInIndexOrder ==
    [][(sinceChange' = sinceChange + 1 /\ sinceChange >= 1 /\ NeverEdited') =>
          started' > started]_vars

\* The writes of execute() to slice k under the active config
QueueWrites(k) ==
    {MarkProcessing(k), MarkFailed(k),
     MarkDone(k, ProcessSingleSlice(slices[k].originalSrc, enableMatting, enableStroke,
                                    strokeWidth, filter))}

\* Applied to the rendered list in either order, an edit of j and a queue write to
\* another slice k give the same list, with j's new original and k's status and result
EditCommutesWithQueueWrite ==
    \A j, k \in 1..Len(slices) : \A src \in EditSrcs :
        j # k =>
            \A w \in QueueWrites(k) :
                LET e == Edit(j, src, "pending")
                    editFirst == ApplyUpdate(ApplyUpdate(slices, e), w)
                    writeFirst == ApplyUpdate(ApplyUpdate(slices, w), e)
                IN  /\ editFirst = writeFirst
                    /\ editFirst[j].originalSrc = src
                    /\ editFirst[j].status = "pending"
                    /\ editFirst[j].processedSrc = slices[j].processedSrc
                    /\ editFirst[k].status = w.st
                    /\ editFirst[k].originalSrc = slices[k].originalSrc
                    /\ editFirst[k].processedSrc =
                           (IF w.t = "done" THEN w.res ELSE slices[k].processedSrc)

\* C22: an edit of slice j and a write of the queue to another slice k do not
\* overwrite each other.  The two updates commute on every reachable list; an edited
\* original, once rendered, is kept by every later step; an edit keeps the writes
\* already queued; and the render of a batch whose last update is a write to k shows
\* k with that write's status and result.
EditAndQueueWriteBothApplied ==
    [][/\ EditCommutesWithQueueWrite
       /\ \A j \in 1..Len(slices) :
             slices[j].originalSrc \in EditSrcs =>
                 /\ j <= Len(slices')
                 /\ slices'[j].originalSrc = slices[j].originalSrc
       /\ (selectedSliceIndex # Null /\ selectedSliceIndex' = Null /\ events' = events + 1) =>
             /\ Len(qSlices') >= Len(qSlices)
             /\ \A h \in 1..Len(qSlices) : qSlices'[h] = qSlices[h]
       /\ (qSlices # <<>> /\ qSlices' = <<>>) =>
             LET w == qSlices[Len(qSlices)]
             IN  (w.t \in {"status", "done"} /\ w.i \in 1..Len(slices')) =>
                     /\ slices'[w.i].status = w.st
                     /\ w.t = "done" => slices'[w.i].processedSrc = w.res]_vars

\* C22 reached: the write-back of slice k and an edit of another slice j are queued
\* for the same render.
EditQueuedWithWriteBack ==
    \E h1, h2 \in 1..Len(qSlices) :
        /\ qSlices[h1].t = "edit"
        /\ qSlices[h2].t = "done"
        /\ qSlices[h1].i # qSlices[h2].i

\* C28: the slot pointer is null or an index of the slice list, and a slice that is
\* 'processing' is the slice the slot points to, so none is 'processing' while the
\* slot is free.
SlotHoldsProcessingSlice ==
    /\ processingIndex = Null \/ processingIndex \in 1..Len(slices)
    /\ \A j \in Processing : processingIndex = j

\* C28 reached: the second slice is 'processing' and holds the slot after the first
\* was processed.
SecondSliceHoldsSlot ==
    /\ Len(slices) = 2
    /\ slices[1].status = "done"
    /\ slices[2].status = "processing"
    /\ processingIndex = 2

\* C29: a slice that is 'done' has a processed buffer: none is 'done' without one.
DoneHasBuffer == \A j \in Done : slices[j].processedSrc # Undefined

\* C29 reached: a slice is 'done' with the buffer of a matting run on its generated
\* original.
DoneWithMattedBuffer ==
    \E j \in Done :
        slices[j].processedSrc =
            ProcessSingleSlice(0, TRUE, FALSE, DefaultStrokeWidth, NoFilter)

----------------------------------------------------------------------------
(* Properties of processImage *)

\* stroke(filter(matting(input))), each enabled stage once
Pipeline(img, cfg) ==
    LET drawn == DrawOriginal(img, cfg)
        matted == IF cfg.removeWhite THEN RemoveWhite(drawn) ELSE drawn
        filtered == IF cfg.filter # NoFilter THEN applyFilter(matted, cfg.filter) ELSE matted
    IN  IF cfg.addStroke THEN AddStroke(filtered, StrokeW(cfg)) ELSE filtered

\* Background-traversable: alpha < 20, or R, G and B all > 240
Traversable(p) == p.a < 20 \/ (p.r > 240 /\ p.g > 240 /\ p.b > 240)

OnBorder(canvas, idx) ==
    \/ idx % canvas.w = 0
    \/ idx % canvas.w = canvas.w - 1
    \/ idx \div canvas.w = 0
    \/ idx \div canvas.w = canvas.h - 1

\* 4-connected: same column in adjacent rows, or adjacent columns of the same row
Adjacent(canvas, i, j) ==
    \/ (i % canvas.w = j % canvas.w) /\ (i - j = canvas.w \/ j - i = canvas.w)
    \/ (i \div canvas.w = j \div canvas.w) /\ (i - j = 1 \/ j - i = 1)

\* The traversable pixels connected to the set through traversable pixels
RECURSIVE Connected(_, _)
Connected(canvas, set) ==
    LET more == {j \in DOMAIN canvas.data \ set :
                    /\ Traversable(canvas.data[j])
                    /\ \E i \in set : Adjacent(canvas, i, j)}
    IN  IF more = {} THEN set ELSE Connected(canvas, set \cup more)

\* The background: traversable pixels reachable from a traversable border pixel
Background(canvas) ==
    Connected(canvas, {i \in DOMAIN canvas.data :
                          OnBorder(canvas, i) /\ Traversable(canvas.data[i])})

\* The buffer with alpha 0 on the background and every other pixel untouched
Matted(canvas) ==
    LET background == Background(canvas)
    IN  [canvas EXCEPT !.data = [idx \in DOMAIN canvas.data |->
            IF idx \in background THEN [canvas.data[idx] EXCEPT !.a = 0]
            ELSE canvas.data[idx]]]

\* C11: matting sets alpha to 0 on exactly the traversable pixels 4-connected to a
\* traversable border pixel (no wrapping between rows) and leaves every other pixel,
\* enclosed white regions included, untouched.
MattingRemovesExactlyBackground ==
    (px.pc = "matted" /\ px.cfg.removeWhite) =>
        px.canvas = Matted(DrawOriginal(px.img, px.cfg))

\* C11 reached: a matted 3 x 3 buffer whose white corner was removed and whose white
\* centre, enclosed by dark pixels, was kept.
EnclosedWhiteKept ==
    /\ px.pc = "matted"
    /\ px.cfg.removeWhite
    /\ px.canvas.w = 3 /\ px.canvas.h = 3
    /\ px.canvas.data[4] = White
    /\ px.canvas.data[0] = [White EXCEPT !.a = 0]

\* C12: matting is idempotent: matting a matted buffer changes no pixel.
MattingIdempotent ==
    /\ (px.pc = "matted" /\ px.cfg.removeWhite) => RemoveWhite(px.canvas) = px.canvas
    /\ (px.pc = "refilled" /\ px.cfg.removeWhite /\ px.cfg.filter = NoFilter) =>
           px.canvas = RemoveWhite(DrawOriginal(px.img, px.cfg))

\* C12 reached: a matted buffer with a removed pixel next to a kept one, matted again
\* by the second flood fill without a filter in between.
MattedTwice ==
    /\ px.pc = "refilled"
    /\ px.cfg.removeWhite
    /\ px.cfg.filter = NoFilter
    /\ \E i, j \in DOMAIN px.canvas.data :
          /\ Adjacent(px.canvas, i, j)
          /\ px.canvas.data[i] = [White EXCEPT !.a = 0]
          /\ px.canvas.data[j] = Dark

\* C13: every filter leaves the alpha of every pixel and the R, G and B of every pixel
\* with alpha 0 unchanged; no filter or a name without a case leaves the whole buffer
\* unchanged.
FilterFrame ==
    [][(px.pc = "matted" /\ px'.pc = "filtered") =>
          /\ px'.canvas.w = px.canvas.w
          /\ px'.canvas.h = px.canvas.h
          /\ DOMAIN px'.canvas.data = DOMAIN px.canvas.data
          /\ \A idx \in DOMAIN px.canvas.data :
                /\ px'.canvas.data[idx].a = px.canvas.data[idx].a
                /\ px.canvas.data[idx].a = 0 => px'.canvas.data[idx] = px.canvas.data[idx]
          /\ px.cfg.filter \in {NoFilter, "other"} => px'.canvas = px.canvas]_vars

\* C13 reached: sepia ran on a buffer holding a pixel of alpha 0 with colour, which
\* it kept, and an opaque pixel, which it recoloured.
FilteredWithTransparent ==
    /\ px.pc = "filtered"
    /\ px.cfg.filter = "sepia"
    /\ ~px.cfg.removeWhite
    /\ \E i, j \in DOMAIN px.canvas.data :
          /\ px.canvas.data[i] = Clear
          /\ px.img.data[j] = Dark
          /\ px.canvas.data[j] # Dark
          /\ px.canvas.data[j].a = 255

\* C14: the output is (inputW + 2 * (2 * w + 4)) by (inputH + 2 * (2 * w + 4)) for
\* stroke width w when the stroke is enabled and inputW by inputH when it is
\* disabled, whatever the matting flag and the filter.
OutputDimensions ==
    px.pc = "done" =>
        LET grow == IF px.cfg.addStroke THEN 2 * (2 * px.cfg.strokeWidth + 4) ELSE 0
        IN  /\ px.canvas.w = px.img.w + grow
            /\ px.canvas.h = px.img.h + grow
            /\ DOMAIN px.canvas.data = 0..(px.canvas.w * px.canvas.h - 1)

\* C14 reached: an output with matting, a filter and a stroke of width MaxStrokeWidth.
StrokedOutput ==
    /\ px.pc = "done"
    /\ px.cfg.addStroke
    /\ px.cfg.removeWhite
    /\ px.cfg.filter = "warm"
    /\ px.cfg.strokeWidth = MaxStrokeWidth
    /\ px.canvas.w > px.img.w

----------------------------------------------------------------------------
(* generateSlices: the rectangles.                                          *)

Resolved == geo.pc = "generated"

Range(s) == {s[i] : i \in 1..Len(s)}

\* The distinct line positions strictly inside the crop
Interior(lines) == {p \in Range(lines) : 0 < p /\ p < Percent(100)}

\* The crop rectangle, in 1 / PixelUnit pixel
CropRect ==
    [x |-> Percent(geo.crop.x) * geo.size[1] * 100,
     y |-> Percent(geo.crop.y) * geo.size[2] * 100,
     w |-> Percent(geo.crop.w) * geo.size[1] * 100,
     h |-> Percent(geo.crop.h) * geo.size[2] * 100]

\* The point (a, b) lies in the half-open rectangle
Contains(rect, a, b) ==
    /\ rect.x <= a /\ a < rect.x + rect.w
    /\ rect.y <= b /\ b < rect.y + rect.h

Overlap(r1, r2) ==
    /\ r1.x < r2.x + r2.w /\ r2.x < r1.x + r1.w
    /\ r1.y < r2.y + r2.h /\ r2.y < r1.y + r1.h

PairwiseDisjoint ==
    \A i, j \in 1..Len(geo.rects) : i # j => ~Overlap(geo.rects[i], geo.rects[j])

\* Every rectangle lies in the crop, and every corner of the arrangement of the
\* rectangles' edges that lies in the crop is in a rectangle
CoversCrop ==
    LET edgesX == {CropRect.x} \cup {geo.rects[i].x : i \in 1..Len(geo.rects)}
        edgesY == {CropRect.y} \cup {geo.rects[i].y : i \in 1..Len(geo.rects)}
    IN  /\ \A i \in 1..Len(geo.rects) :
              /\ geo.rects[i].w > 0 /\ geo.rects[i].h > 0
              /\ CropRect.x <= geo.rects[i].x
              /\ geo.rects[i].x + geo.rects[i].w <= CropRect.x + CropRect.w
              /\ CropRect.y <= geo.rects[i].y
              /\ geo.rects[i].y + geo.rects[i].h <= CropRect.y + CropRect.h
        /\ \A a \in edgesX, b \in edgesY :
              Contains(CropRect, a, b) =>
                  \E i \in 1..Len(geo.rects) : Contains(geo.rects[i], a, b)

\* C15 as stated: for every crop and every N vertical and M horizontal lines,
\* exactly (N+1)*(M+1) rectangles are emitted, pairwise disjoint and covering the crop.
CountIsProductOfLineCounts ==
    Resolved =>
        /\ Len(geo.rects) = (Len(geo.lines.v) + 1) * (Len(geo.lines.h) + 1)
        /\ PairwiseDisjoint
        /\ CoversCrop

\* C15 amended: the emitted rectangles are pairwise disjoint and cover the crop, and
\* there are exactly (N+1)*(M+1) of them, where N and M count the distinct vertical
\* and horizontal line positions strictly inside the crop.
CountIsProductOfInteriorLines ==
    Resolved =>
        /\ PairwiseDisjoint
        /\ CoversCrop
        /\ Len(geo.rects) =
              (Cardinality(Interior(geo.lines.v)) + 1)
                  * (Cardinality(Interior(geo.lines.h)) + 1)

\* Two distinct interior lines each way, given unsorted: nine rectangles
NineRectangles ==
    /\ Resolved
    /\ geo.lines.v = <<Percent(50), Percent(25)>>
    /\ geo.lines.h = <<Percent(50), Percent(25)>>
    /\ Len(geo.rects) = 9

\* The positions of the set, ascending
RECURSIVE AscendingSeq(_)
AscendingSeq(positions) ==
    IF positions = {} THEN <<>>
    ELSE LET least == CHOOSE p \in positions : \A q \in positions : p <= q
         IN  <<least>> \o AscendingSeq(positions \ {least})

\* The distinct positions of the lines, ascending
Ascending(lines) == AscendingSeq(Range(lines))

\* Earlier in the sequence means higher up, or on the same row and further left
RowMajor ==
    \A i, j \in 1..Len(geo.rects) :
        i < j => \/ geo.rects[i].y < geo.rects[j].y
                 \/ /\ geo.rects[i].y = geo.rects[j].y
                    /\ geo.rects[i].x < geo.rects[j].x

\* C16: the emitted rectangles are in row-major order, and they are the rectangles
\* of the set of line positions, whatever the order and repetition of the lines.
RowMajorOfLineSet ==
    Resolved =>
        /\ RowMajor
        /\ geo.rects =
              GenerateRects(geo.size, geo.crop,
                            [v |-> Ascending(geo.lines.v), h |-> Ascending(geo.lines.h)])

\* Lines given in descending order, one of them on the crop's edge
DescendingLinesResolved ==
    /\ Resolved
    /\ geo.lines.v = <<Percent(50), Percent(25)>>
    /\ geo.lines.h = <<Percent(100), Percent(50)>>
    /\ Len(geo.rects) = 6

\* C23: no emitted slice has a rounded width or height of zero or less: a cell whose
\* size rounds to zero is dropped.
NoZeroSizeSlice ==
    Resolved =>
        \A i \in 1..Len(geo.rects) :
            geo.rects[i].canvasW > 0 /\ geo.rects[i].canvasH > 0

\* C24: the width and height of every emitted rect are whole pixels, the size of
\* the slice's original buffer.
RectSizeIsBufferSize ==
    Resolved =>
        \A i \in 1..Len(geo.rects) :
            /\ geo.rects[i].w = PixelUnit * geo.rects[i].canvasW
            /\ geo.rects[i].h = PixelUnit * geo.rects[i].canvasH

\* C25: matting writes only alpha and only the value 0: R, G and B of every pixel
\* are kept, a pixel the flood fill did not enqueue is unchanged, and when no border
\* pixel is traversable the queue is empty and the buffer unchanged.
MattingWritesOnlyAlphaZero ==
    (px.pc = "matted" /\ px.cfg.removeWhite) =>
        LET before == DrawOriginal(px.img, px.cfg)
            fill == FloodFill(before)
            reached == {fill.queue[h] : h \in 1..Len(fill.queue)}
        IN  /\ px.canvas.w = before.w /\ px.canvas.h = before.h
            /\ \A idx \in DOMAIN before.data :
                  /\ px.canvas.data[idx].r = before.data[idx].r
                  /\ px.canvas.data[idx].g = before.data[idx].g
                  /\ px.canvas.data[idx].b = before.data[idx].b
                  /\ px.canvas.data[idx].a \in {before.data[idx].a, 0}
                  /\ idx \notin reached => px.canvas.data[idx] = before.data[idx]
            /\ (\A idx \in DOMAIN before.data :
                   OnBorder(before, idx) => ~Traversable(before.data[idx]))
                  => (fill.queue = <<>> /\ px.canvas = before)

\* C25 reached: matting made a white pixel transparent, keeping its colour, next to
\* a dark pixel it left alone.
WhiteClearedDarkKept ==
    /\ px.pc = "matted"
    /\ px.cfg.removeWhite
    /\ \E i, j \in DOMAIN px.img.data :
          /\ px.img.data[i] = White /\ px.canvas.data[i] = Pixel(255, 255, 255, 0)
          /\ px.img.data[j] = Dark /\ px.canvas.data[j] = Dark
          /\ Adjacent(px.canvas, i, j)

\* C27: the flood fill terminates with its queue drained, no pixel index is enqueued
\* twice, and the queue holds at most W * H entries.
EachPixelEnqueuedOnce ==
    (px.pc = "matted" /\ px.cfg.removeWhite) =>
        LET fill == FloodFill(DrawOriginal(px.img, px.cfg))
        IN  /\ fill.head = Len(fill.queue)
            /\ \A h1, h2 \in 1..Len(fill.queue) :
                  h1 # h2 => fill.queue[h1] # fill.queue[h2]
            /\ Len(fill.queue) <= fill.size

\* C26: the grayscale filter leaves a non-transparent pixel with R = G = B = v as it
\* is, for every v in 0..255; the rounding of the luminance gives v also when the
\* weighted sum is off by a floating-point error (here up to a millionth).
GrayscaleKeepsGray ==
    [][(px.pc = "matted" /\ px'.pc = "filtered" /\ px.cfg.filter = "grayscale") =>
          \A idx \in DOMAIN px.canvas.data :
              LET p == px.canvas.data[idx]
              IN  (p.a # 0 /\ p.r = p.g /\ p.g = p.b) =>
                      /\ px'.canvas.data[idx] = p
                      /\ \A e \in {-1, 0, 1} :
                            ToUint8Clamped(1000 * Luminance(p) + e, 1000000) = p.r]_vars

\* C26 reached: an opaque mid-gray pixel after the grayscale filter.
MidGrayFiltered ==
    /\ px.pc = "filtered"
    /\ px.cfg.filter = "grayscale"
    /\ ~px.cfg.removeWhite
    /\ px.img.data[0] = Pixel(127, 127, 127, 255)
    /\ px.canvas.data[0] = Pixel(127, 127, 127, 255)

\* Strictly increasing and strictly between 0 and 100
IncreasingInside(lines) ==
    /\ \A i \in 1..Len(lines) : 0 < lines[i] /\ lines[i] < Percent(100)
    /\ \A i, j \in 1..Len(lines) : i < j => lines[i] < lines[j]

\* C30: setGridConfig(rows, cols) with rows and cols in 1..10 gives cols - 1 vertical
\* and rows - 1 horizontal lines, strictly increasing and strictly between 0 and 100,
\* and leaves crop, file, imageUrl and step as they were; generateSlices on the lines
\* of a grid config emits rows * cols cells, whatever the crop.
GridConfigGivesRowsTimesCols ==
    [][/\ (geo.pc = "editor" /\ geo'.pc = "editor") =>
             /\ geo'.grid.rows \in GridCounts /\ geo'.grid.cols \in GridCounts
             /\ Len(geo'.lines.v) = geo'.grid.cols - 1
             /\ Len(geo'.lines.h) = geo'.grid.rows - 1
             /\ IncreasingInside(geo'.lines.v)
             /\ IncreasingInside(geo'.lines.h)
             /\ geo'.crop = geo.crop
             /\ geo'.file = geo.file
             /\ geo'.imageUrl = geo.imageUrl
             /\ geo'.step = geo.step
       /\ (/\ geo.pc = "editor" /\ geo'.pc = "generated"
           /\ geo.lines = [v |-> EvenLines(geo.grid.cols), h |-> EvenLines(geo.grid.rows)]) =>
             Len(geo'.rects) = geo.grid.rows * geo.grid.cols]_vars

\* C30 reached: a grid of 3 rows and 10 columns on a crop narrower than the image,
\* resolved into 30 cells.
ThreeByTenResolved ==
    /\ Resolved
    /\ geo.grid.rows = 3 /\ geo.grid.cols = 10
    /\ geo.lines.v = EvenLines(10)
    /\ geo.crop.w < 100
    /\ Len(geo.rects) = 30

\* C10: the output of processImage equals stroke(filter(matting(input))) with the
\* disabled stages skipped, each enabled stage applied exactly once and in that order.
OutputIsPipeline == px.pc = "done" => px.canvas = Pipeline(px.img, px.cfg)

====
